---- MODULE Spec2Model ----
(***************************************************************************)
(* RelocationEndpoint.post (src/sentry/api/endpoints/relocation.py): the   *)
(* upload of a relocation tarball, run by several requests concurrently    *)
(* against one database.  A request is a sequence of steps; between two    *)
(* steps that touch the database any other request may run.                *)
(*                                                                         *)
(* Sizes are counted in MiB: 2^31 bytes are 2048 MiB and the blob size     *)
(* int((2**31) / 32) is 64 MiB.                                            *)
(***************************************************************************)
EXTENDS Integers, Sequences, FiniteSets

\* ------------------------------------------------------------------ bounds

\* Requests handled concurrently under Spec.
NumRequests == 2

\* Largest upload (MiB) tried under SpecUpload: one blob more than the
\* fan-out allows.
MaxUploadSize == 2112

\* --------------------------------------------------------------- constants

\* The hard limit of the File mechanism, 2GiB (2**31 bytes), in MiB.
MAX_FILE_SIZE == 2048

\* The composite-object limit of the blob store: 32 components.
MAX_FAN_OUT == 32

\* The blob size computed from 2**32: 128 MiB.
RELOCATION_BLOB_SIZE_FROM_4GIB == (2 * MAX_FILE_SIZE) \div MAX_FAN_OUT

\* RELOCATION_BLOB_SIZE = int((2**31) / 32): 64 MiB.
RELOCATION_BLOB_SIZE == MAX_FILE_SIZE \div MAX_FAN_OUT

ERR_DUPLICATE_RELOCATION == "An in-progress relocation already exists for this owner"
ERR_FEATURE_DISABLED == "This feature is not yet enabled"
ERR_USER_NOT_FOUND == "Could not find user"

\* ------------------------------------------------------------------- state

VARIABLES
    pc,                \* where each request is in post()
    local,             \* post()'s local variables, per request
    response,          \* the Response each request returned
    relocations,       \* committed Relocation rows
    relocation_files,  \* committed RelocationFile rows
    files,             \* File rows with their blob index, by id
    relocation_seq,    \* the id sequence of the Relocation table
    relocation_enabled \* what features.has("relocation:enabled") answers

vars == <<pc, local, response, relocations, relocation_files, files, relocation_seq,
          relocation_enabled>>

Requests == 1..NumRequests

None == -1

\* user_service.get_by_username: the users carrying a username, in the
\* service's order.  "bob" has two matches, "ghost" none.
get_by_username(username) ==
    CASE username = "alice" -> <<1>>
      [] username = "bob" -> <<2, 3>>
      [] OTHER -> <<>>

\* The lookup that never fails: no user stands for "no match".
first_user_or_nobody(found) == IF found = <<>> THEN 0 ELSE found[1]

\* Lines 83-86: get_by_username(...)[0], or None where indexing raises IndexError.
first_user(found) == IF found = <<>> THEN None ELSE found[1]

OwnerIds == {1, 2}

\* request.user.id of a request: a superuser, who is none of the owners.
Superusers == {9}

\* request.data: what a client may send.
Usernames == {"", "alice", "bob", "ghost"}
OrgLists == {<<>>, <<"org-a">>, <<"org-a", "org-b">>}
SmallSizes == {65}
UploadSizes == 1..MaxUploadSize

\* The rows a request has not created yet.
NoRelocation ==
    [id |-> 0, creator |-> 0, owner |-> 0, want_org_slugs |-> <<>>,
     step |-> "", status |-> ""]

NoLocal ==
    [owner_username |-> "", org_slugs |-> <<>>, fileobj |-> 0, unread |-> 0,
     user |-> 0, owner |-> 0, file |-> 0, relocation |-> NoRelocation]

NoResponse == [status |-> 0, detail |-> "", errors |-> {}, id |-> 0]

Response(status, detail, errors) ==
    [status |-> status, detail |-> detail, errors |-> errors, id |-> 0]

\* What clients send under Spec, and under SpecUpload (one client, every size).
SpecInputs ==
    [sizes |-> SmallSizes, owners |-> Usernames, orgs |-> OrgLists, users |-> Superusers]

UploadInputs ==
    [sizes |-> UploadSizes, owners |-> {"alice", ""}, orgs |-> {<<"org-a">>, <<>>},
     users |-> {9}]

Init ==
    /\ pc = [r \in Requests |-> "idle"]
    /\ local = [r \in Requests |-> NoLocal]
    /\ response = [r \in Requests |-> NoResponse]
    /\ relocations = {}
    /\ relocation_files = {}
    /\ files = <<>>
    /\ relocation_seq = 0
    /\ relocation_enabled = FALSE

\* The serializer with allow_empty left at its default for orgs.
serializer_errors_allow_empty(data) ==
    (IF data.file = None \/ data.file = 0 THEN {"file"} ELSE {})
    \cup (IF data.owner = "" THEN {"owner"} ELSE {})

\* RelocationPostSerializer.is_valid: the fields in error.  A FileField
\* rejects a missing file and an empty one; orgs must be a non-empty list;
\* owner must not be blank.
serializer_errors(data) ==
    (IF data.file = None \/ data.file = 0 THEN {"file"} ELSE {})
    \cup (IF data.orgs = <<>> THEN {"orgs"} ELSE {})
    \cup (IF data.owner = "" THEN {"owner"} ELSE {})

\* post() returns: the response goes out and the locals are gone.
Finish(r, resp) ==
    /\ pc' = [pc EXCEPT ![r] = "done"]
    /\ response' = [response EXCEPT ![r] = resp]
    /\ local' = [local EXCEPT ![r] = NoLocal]

\* Lines 71-86: the feature check, the serializer and the owner lookup.
\* None of them reads or writes the tables, so they are one step.  Requests
\* are interchangeable, so they are numbered in the order they arrive.
Begin(r, inputs) ==
    /\ pc[r] = "idle"
    /\ \A q \in Requests : q < r => pc[q] # "idle"
    /\ \E user \in inputs.users,
          file \in {None, 0} \cup inputs.sizes, orgs \in inputs.orgs,
          owner \in inputs.owners :
        LET data == [file |-> file, orgs |-> orgs, owner |-> owner]
            found == first_user(get_by_username(owner))
        IN  IF ~relocation_enabled
            THEN Finish(r, Response(400, ERR_DUPLICATE_RELOCATION, {}))
            ELSE IF serializer_errors(data) # {}
            THEN Finish(r, Response(400, "", serializer_errors(data)))
            ELSE IF found = None
            THEN Finish(r, Response(400, ERR_USER_NOT_FOUND, {}))
            ELSE /\ pc' = [pc EXCEPT ![r] = "check"]
                 /\ local' = [local EXCEPT ![r] =
                        [NoLocal EXCEPT !.owner_username = owner, !.org_slugs = orgs,
                                        !.fileobj = file, !.unread = file,
                                        !.user = user, !.owner = found]]
                 /\ UNCHANGED response
    /\ UNCHANGED <<relocations, relocation_files, files, relocation_seq, relocation_enabled>>

\* The check with the status filter lost: it looks for finished relocations.
HasInProgressWrongStatus(owner) ==
    \E j \in relocations : j.owner = owner /\ j.status = "SUCCESS"

\* The check with the owner filter lost: any relocation in progress counts.
HasInProgressAnyOwner(owner) ==
    \E j \in relocations : j.status = "IN_PROGRESS"

\* The check with no status filter: any relocation of the owner counts.
HasAnyRelocation(owner) ==
    \E j \in relocations : j.owner = owner

\* Relocation.objects.filter(owner=..., status=IN_PROGRESS).exists()
HasInProgress(owner) ==
    \E j \in relocations : j.owner = owner /\ j.status = "IN_PROGRESS"

\* The File created ahead of the admission check.
CheckAdmissionAfterCreate(r) ==
    /\ pc[r] = "check"
    /\ files' = Append(files, [name |-> "raw-relocation-data.tar",
                               type |-> "relocation.file", size |-> 0, blobs |-> <<>>])
    /\ IF HasInProgress(local[r].owner)
       THEN Finish(r, Response(409, ERR_DUPLICATE_RELOCATION, {}))
       ELSE /\ pc' = [pc EXCEPT ![r] = "putfile"]
            /\ local' = [local EXCEPT ![r].file = Len(files) + 1]
            /\ UNCHANGED response
    /\ UNCHANGED <<relocations, relocation_files, relocation_seq, relocation_enabled>>

\* Lines 88-92: the admission check, one read of the Relocation table.
CheckAdmission(r) ==
    /\ pc[r] = "check"
    /\ IF HasInProgress(local[r].owner)
       THEN Finish(r, Response(409, ERR_DUPLICATE_RELOCATION, {}))
       ELSE /\ pc' = [pc EXCEPT ![r] = "create_file"]
            /\ UNCHANGED <<local, response>>
    /\ UNCHANGED <<relocations, relocation_files, files, relocation_seq, relocation_enabled>>

\* Line 97: File.objects.create, committed on its own (no transaction is open).
CreateFile(r) ==
    /\ pc[r] = "create_file"
    /\ files' = Append(files, [name |-> "raw-relocation-data.tar",
                               type |-> "relocation.file", size |-> 0, blobs |-> <<>>])
    /\ local' = [local EXCEPT ![r].file = Len(files) + 1]
    /\ pc' = [pc EXCEPT ![r] = "putfile"]
    /\ UNCHANGED <<response, relocations, relocation_files, relocation_seq, relocation_enabled>>

\* putfile called without blob_size: the File default of 1 MiB.
putfile_default_blob_size == RELOCATION_BLOB_SIZE \div RELOCATION_BLOB_SIZE

\* Line 98: the blob_size handed to putfile.
putfile_blob_size == RELOCATION_BLOB_SIZE

Min(a, b) == IF a < b THEN a ELSE b

\* The uploaded stream of a file of the given size: its units, each different
\* from the others.
Stream(size) == [i \in 1..size |-> i]

\* fileobj.read(n) at a position of the stream: the units read.
Read(size, position, n) == SubSeq(Stream(size), position + 1, position + n)

\* The chunks indexed by what is left of the stream, not by what was read.
PutfileChunkReversed(r) ==
    /\ pc[r] = "putfile"
    /\ local[r].unread > 0
    /\ LET f == local[r].file
           n == Min(putfile_blob_size, local[r].unread)
           position == local[r].fileobj - local[r].unread
       IN  IF Len(files[f].blobs) >= MAX_FAN_OUT
           THEN /\ Finish(r, Response(500, "CapacityExceeded", {}))
                /\ UNCHANGED files
           ELSE /\ files' = [files EXCEPT ![f].blobs =
                                Append(@, [offset |-> local[r].unread - n, size |-> n,
                                           first |-> position + 1])]
                /\ local' = [local EXCEPT ![r].unread = @ - n]
                /\ UNCHANGED <<pc, response>>
    /\ UNCHANGED <<relocations, relocation_files, relocation_seq, relocation_enabled>>

\* File.putfile, one chunk: read at most blob_size from the stream, store it as
\* the next blob, indexed at the current offset.  A blob holds the units of
\* the stream from `first` on.  A chunk beyond the fan-out fails the write
\* (CapacityExceeded).
PutfileChunk(r) ==
    /\ pc[r] = "putfile"
    /\ local[r].unread > 0
    /\ LET f == local[r].file
           n == Min(putfile_blob_size, local[r].unread)
           offset == local[r].fileobj - local[r].unread
       IN  IF Len(files[f].blobs) >= MAX_FAN_OUT
           THEN /\ Finish(r, Response(500, "CapacityExceeded", {}))
                /\ UNCHANGED files
           ELSE /\ files' = [files EXCEPT ![f].blobs =
                                Append(@, [offset |-> offset, size |-> n,
                                           first |-> offset + 1])]
                /\ local' = [local EXCEPT ![r].unread = @ - n]
                /\ UNCHANGED <<pc, response>>
    /\ UNCHANGED <<relocations, relocation_files, relocation_seq, relocation_enabled>>

\* File.putfile: persisting a chunk fails (StorageWriteFailure); the exception
\* leaves post().
PutfileFail(r) ==
    /\ pc[r] = "putfile"
    /\ local[r].unread > 0
    /\ Len(files[local[r].file].blobs) < MAX_FAN_OUT
    /\ Finish(r, Response(500, "StorageWriteFailure", {}))
    /\ UNCHANGED <<relocations, relocation_files, files, relocation_seq, relocation_enabled>>

\* File.putfile: the stream is exhausted; the file's size is saved.
PutfileSave(r) ==
    /\ pc[r] = "putfile"
    /\ local[r].unread = 0
    /\ files' = [files EXCEPT ![local[r].file].size = local[r].fileobj]
    /\ pc' = [pc EXCEPT ![r] = "txn"]
    /\ UNCHANGED <<local, response, relocations, relocation_files, relocation_seq, relocation_enabled>>

\* The status a Relocation row gets when create() names none.
DefaultStatus == "IN_PROGRESS"

\* The Relocation with creator and owner taken from each other.
NewRelocationSwapped(r, id) ==
    [id |-> id, creator |-> local[r].owner, owner |-> local[r].user,
     want_org_slugs |-> local[r].org_slugs, step |-> "UPLOADING",
     status |-> "IN_PROGRESS"]

\* Lines 103-108: the Relocation created inside the transaction.
NewRelocation(r, id) ==
    [id |-> id, creator |-> local[r].user, owner |-> local[r].owner,
     want_org_slugs |-> local[r].org_slugs, step |-> "UPLOADING",
     status |-> DefaultStatus]

\* Lines 109-113: the RelocationFile created inside the transaction.
NewRelocationFile(r) ==
    [relocation |-> local[r].relocation.id, file |-> local[r].file,
     kind |-> "RAW_USER_DATA"]

\* The Relocation inserted with no transaction open: it is committed at once.
TxnCreateRelocationAutocommit(r) ==
    /\ pc[r] = "txn"
    /\ relocation_seq' = relocation_seq + 1
    /\ local' = [local EXCEPT ![r].relocation = NewRelocation(r, relocation_seq + 1)]
    /\ relocations' = relocations \cup {NewRelocation(r, relocation_seq + 1)}
    /\ pc' = [pc EXCEPT ![r] = "txn_file"]
    /\ UNCHANGED <<response, relocation_files, files, relocation_enabled>>

\* Lines 100-108: the transaction opens and inserts the Relocation; the row is
\* not committed yet.
TxnCreateRelocation(r) ==
    /\ pc[r] = "txn"
    /\ relocation_seq' = relocation_seq + 1
    /\ local' = [local EXCEPT ![r].relocation = NewRelocation(r, relocation_seq + 1)]
    /\ pc' = [pc EXCEPT ![r] = "txn_file"]
    /\ UNCHANGED <<response, relocations, relocation_files, files, relocation_enabled>>

\* The commit that replaces the owner's earlier relocations by the new one.
TxnCommitReplacing(r) ==
    /\ pc[r] = "txn_file"
    /\ relocations' = {j \in relocations : j.owner # local[r].owner}
                        \cup {local[r].relocation}
    /\ relocation_files' = relocation_files \cup {NewRelocationFile(r)}
    /\ Finish(r, Response(201, "", {}))
    /\ UNCHANGED <<files, relocation_seq, relocation_enabled>>

\* Lines 109-115: the RelocationFile is inserted, the transaction commits both
\* rows, and the response is 201 with no body.
TxnCommit(r) ==
    /\ pc[r] = "txn_file"
    /\ relocations' = relocations \cup {local[r].relocation}
    /\ relocation_files' = relocation_files \cup {NewRelocationFile(r)}
    /\ Finish(r, Response(201, "", {}))
    /\ UNCHANGED <<files, relocation_seq, relocation_enabled>>

\* The two inserts without the transaction around them: a failure of the
\* second insert leaves the Relocation behind.
TxnFailAutocommit(r) ==
    /\ pc[r] \in {"txn", "txn_file"}
    /\ relocations' = IF pc[r] = "txn_file"
                      THEN relocations \cup {local[r].relocation}
                      ELSE relocations
    /\ Finish(r, Response(500, "PersistenceFailure", {}))
    /\ UNCHANGED <<relocation_files, files, relocation_seq, relocation_enabled>>

\* Lines 100-113: an insert fails; atomic_transaction rolls back whatever the
\* transaction wrote and the exception leaves post().
TxnFail(r) ==
    /\ pc[r] \in {"txn", "txn_file"}
    /\ Finish(r, Response(500, "PersistenceFailure", {}))
    /\ UNCHANGED <<relocations, relocation_files, files, relocation_seq, relocation_enabled>>

\* The feature flag is switched on or off, outside this endpoint.
SetFeature(enabled) ==
    /\ relocation_enabled # enabled
    /\ relocation_enabled' = enabled
    /\ UNCHANGED <<pc, local, response, relocations, relocation_files, files,
                   relocation_seq>>

\* The relocation pipeline, outside this endpoint: it ends or pauses a job.
Pipeline(id, status) ==
    /\ \E j \in relocations :
        /\ j.id = id
        /\ j.status = "IN_PROGRESS"
        /\ relocations' = (relocations \ {j}) \cup {[j EXCEPT !.status = status]}
    /\ UNCHANGED <<pc, local, response, relocation_files, files, relocation_seq, relocation_enabled>>

Step(r, inputs) ==
    \/ Begin(r, inputs)
    \/ CheckAdmission(r)
    \/ CreateFile(r)
    \/ PutfileChunk(r)
    \/ PutfileFail(r)
    \/ PutfileSave(r)
    \/ TxnCreateRelocation(r)
    \/ TxnCommit(r)
    \/ TxnFail(r)

Next ==
    \/ \E r \in Requests : Step(r, SpecInputs)
    \/ \E id \in 1..NumRequests, status \in {"FAILURE", "SUCCESS", "PAUSE"} :
        Pipeline(id, status)
    \/ \E enabled \in BOOLEAN : SetFeature(enabled)

Spec == Init /\ [][Next]_vars

\* One request, every upload size.
NextUpload ==
    \/ Step(1, UploadInputs)
    \/ \E enabled \in BOOLEAN : SetFeature(enabled)

SpecUpload == Init /\ [][NextUpload]_vars

\* ------------------------------------------------------------------ claims

InProgressOf(o) == {j \in relocations : j.owner = o /\ j.status = "IN_PROGRESS"}

Returned(r, status) == response[r].status = status

\* The request r returns in this step.
Returns(r) == pc[r] # "done" /\ pc'[r] = "done"

TablesUnchanged == UNCHANGED <<relocations, relocation_files, files>>

\* C1: in every committed state, each owner has at most one Relocation with
\* status IN_PROGRESS.
C1_AtMostOneInProgress ==
    \A o \in OwnerIds : Cardinality(InProgressOf(o)) <= 1

\* C2: when all the requests are valid submissions for one owner, who had no
\* IN_PROGRESS relocation, and nothing else touched the owner's relocations,
\* exactly one of them ends with 201 and every other one with 409.
C2_ExactlyOneCreated ==
    \A o \in OwnerIds :
        (/\ \A r \in Requests : Returned(r, 201) \/ Returned(r, 409)
         /\ \A j \in relocations : j.owner = o /\ j.status = "IN_PROGRESS")
        => Cardinality({r \in Requests : Returned(r, 201)}) = 1

\* C3: a request whose owner has an IN_PROGRESS relocation when the admission
\* check runs returns 409 in that step, has created no file and no relocation
\* before it, and the step leaves the three tables as they were.
C3_DuplicateRejected ==
    [][\A r \in Requests :
        (/\ pc[r] = "check"
         /\ pc'[r] # "check"
         /\ \E j \in relocations :
                j.owner = local[r].owner /\ j.status = "IN_PROGRESS")
        => /\ pc'[r] = "done"
           /\ response'[r].status = 409
           /\ local[r].file = 0
           /\ local[r].relocation = NoRelocation
           /\ TablesUnchanged]_vars

\* C3's case: a request was rejected with 409 while its owner's relocation is
\* in progress.
C3_Witness ==
    \E r \in Requests : Returned(r, 409) /\ relocations # {} /\ files # <<>>

\* Every Relocation has exactly one RelocationFile and every RelocationFile
\* belongs to exactly one Relocation.
JobsAndAttachmentsPaired ==
    /\ \A j \in relocations :
        Cardinality({a \in relocation_files : a.relocation = j.id}) = 1
    /\ \A a \in relocation_files :
        Cardinality({j \in relocations : j.id = a.relocation}) = 1

\* C4: in every committed state the relocations and the relocation files are
\* paired one to one, and a request whose transaction fails commits neither row.
C4_JobAndAttachmentTogether ==
    /\ []JobsAndAttachmentsPaired
    /\ [][\A r \in Requests :
            (pc[r] \in {"txn", "txn_file"} /\ pc'[r] = "done"
             /\ response'[r].status # 201)
            => UNCHANGED <<relocations, relocation_files>>]_vars

\* C4's case: one transaction failed after its Relocation insert and another
\* one committed.
C4_Witness ==
    /\ \E r \in Requests : response[r].detail = "PersistenceFailure"
    /\ relocation_seq > Cardinality(relocations)
    /\ relocations # {}

InFlight(r) == pc[r] \notin {"idle", "done"}

\* C5: a request with a blank owner, an empty orgs list or a missing file
\* never gets past the serializer, and a request that ends at the serializer
\* returns 400 and leaves the tables and the id sequence as they were.
C5_InvalidRequestRejected ==
    /\ [](\A r \in Requests :
            InFlight(r) => /\ local[r].owner_username # ""
                           /\ local[r].org_slugs # <<>>
                           /\ local[r].fileobj > 0)
    /\ [][\A r \in Requests :
            (pc[r] = "idle" /\ pc'[r] = "done")
            => /\ response'[r].status = 400
               /\ response'[r].errors \subseteq {"file", "orgs", "owner"}
               /\ TablesUnchanged
               /\ UNCHANGED relocation_seq]_vars

\* C5's case: one request was rejected for its blank owner alone, another for
\* its missing file and empty orgs, and nothing was stored.
C5_Witness ==
    /\ \E r \in Requests : Returned(r, 400) /\ response[r].errors = {"owner"}
    /\ \E r \in Requests : Returned(r, 400) /\ response[r].errors = {"file", "orgs"}
    /\ relocations = {} /\ relocation_files = {} /\ files = <<>>

\* C6: a request whose owner username matches no user never gets past the
\* lookup (a request in flight holds the first match as its owner), and the
\* request that reports the unknown user returns 400 from its first step and
\* leaves the tables and the id sequence as they were.
C6_UnknownOwnerRejected ==
    /\ [](\A r \in Requests :
            InFlight(r) => /\ get_by_username(local[r].owner_username) # <<>>
                           /\ local[r].owner = get_by_username(local[r].owner_username)[1])
    /\ [][\A r \in Requests :
            (Returns(r) /\ response'[r].detail = ERR_USER_NOT_FOUND)
            => /\ pc[r] = "idle"
               /\ response'[r].status = 400
               /\ TablesUnchanged
               /\ UNCHANGED relocation_seq]_vars

\* C6's case: an unknown owner was reported while nothing is stored.
C6_Witness ==
    /\ \E r \in Requests : Returned(r, 400) /\ response[r].detail = ERR_USER_NOT_FOUND
    /\ relocations = {} /\ relocation_files = {} /\ files = <<>>

RelocationIds == {j.id : j \in relocations}

\* C7: the step in which a request returns 201 adds exactly one Relocation,
\* with a fresh id, step UPLOADING, status IN_PROGRESS, the resolved owner,
\* the requestor as creator and the request's orgs, and exactly one
\* RelocationFile of kind RAW_USER_DATA from that Relocation to the file this
\* request created and filled; and no step adds a Relocation in another step.
C7_CreatedRows ==
    [][/\ \A r \in Requests :
            (Returns(r) /\ response'[r].status = 201)
            => \E j \in relocations', a \in relocation_files' :
                /\ j.id \notin RelocationIds
                /\ relocations' = relocations \cup {j}
                /\ j.step = "UPLOADING"
                /\ j.status = "IN_PROGRESS"
                /\ j.owner = get_by_username(local[r].owner_username)[1]
                /\ j.creator = local[r].user
                /\ j.creator \in Superusers
                /\ j.want_org_slugs = local[r].org_slugs
                /\ a \notin relocation_files
                /\ relocation_files' = relocation_files \cup {a}
                /\ a.kind = "RAW_USER_DATA"
                /\ a.relocation = j.id
                /\ a.file = local[r].file
                /\ a.file \notin {b.file : b \in relocation_files}
                /\ files[a.file].size = local[r].fileobj
       /\ \A j \in relocations' :
            j.id \notin RelocationIds => j.step = "UPLOADING"]_vars

\* C7's case: a request for "bob" with two orgs returned 201.
C7_Witness ==
    /\ \E r \in Requests : Returned(r, 201)
    /\ \E j \in relocations : j.owner = 2 /\ j.want_org_slugs = <<"org-a", "org-b">>

\* C8: a request that returns 201 names the Relocation it created in its
\* response.
C8_ResponseCarriesJobId ==
    \A r \in Requests :
        Returned(r, 201) => response[r].id \in RelocationIds

CeilDiv(a, b) == (a + b - 1) \div b

RECURSIVE SumSizes(_)
SumSizes(blobs) ==
    IF blobs = <<>> THEN 0 ELSE Head(blobs).size + SumSizes(Tail(blobs))

C10_BlobCount ==
    /\ [](\A r \in Requests :
            (pc[r] \in {"txn", "txn_file"} /\ local[r].fileobj <= MAX_FILE_SIZE)
            => LET f == files[local[r].file]
                   S == local[r].fileobj
               IN  /\ f.size = S
                   /\ Len(f.blobs) = CeilDiv(S, 64)
                   /\ Len(f.blobs) <= 32
                   /\ \A i \in 1..Len(f.blobs) : f.blobs[i].size <= 64
                   /\ SumSizes(f.blobs) = S)
    /\ [][\A r \in Requests :
            (pc[r] = "putfile" /\ local[r].fileobj <= MAX_FILE_SIZE)
            => response'[r].detail # "CapacityExceeded"]_vars

\* C10's case: an upload of 2047 MiB is stored in 32 blobs, the last 63 long.
C10_Witness ==
    \E r \in Requests :
        /\ pc[r] = "txn"
        /\ local[r].fileobj = 2047
        /\ Len(files[local[r].file].blobs) = 32
        /\ files[local[r].file].blobs[32].size = 63

\* The contents of a blob: the units of the stream it was written from.
BlobContents(size, b) == Read(size, b.first - 1, b.size)

\* The blobs of a file read back in sequence-index order (by offset) and
\* concatenated.
RECURSIVE ReadBack(_, _)
ReadBack(size, blobs) ==
    IF blobs = {} THEN <<>>
    ELSE LET b == CHOOSE x \in blobs : \A y \in blobs : x.offset <= y.offset
         IN  BlobContents(size, b) \o ReadBack(size, blobs \ {b})

BlobSet(f) == {f.blobs[i] : i \in 1..Len(f.blobs)}

\* C11: once putfile has returned, the blobs of the file are indexed in the
\* order they were written (offsets strictly increasing) and, read back in
\* index order, reproduce the uploaded stream.
C11_RoundTrip ==
    \A r \in Requests :
        pc[r] \in {"txn", "txn_file"}
        => LET f == files[local[r].file]
           IN  /\ \A i \in 1..(Len(f.blobs) - 1) :
                    f.blobs[i].offset < f.blobs[i + 1].offset
               /\ Cardinality(BlobSet(f)) = Len(f.blobs)
               /\ ReadBack(local[r].fileobj, BlobSet(f)) = Stream(local[r].fileobj)

\* C11's case: an upload of 130 MiB is stored in three blobs.
C11_Witness ==
    \E r \in Requests :
        /\ pc[r] = "txn_file"
        /\ local[r].fileobj = 130
        /\ Len(files[local[r].file].blobs) = 3

\* C12: a request that arrives while the relocation feature is off is
\* answered 403 or 404 in its first step, and no File, Relocation or
\* RelocationFile is created.
C12_FeatureGateRejects ==
    [][\A r \in Requests :
        (pc[r] = "idle" /\ pc'[r] # "idle" /\ ~relocation_enabled)
        => /\ pc'[r] = "done"
           /\ response'[r].status \in {403, 404}
           /\ TablesUnchanged]_vars

\* C13: a request that fails before its transaction (at the serializer, the
\* owner lookup, the admission check or in putfile) has inserted no Relocation
\* and leaves the Relocation and RelocationFile tables as they were; the
\* Relocation of an open transaction is not among the committed rows, and a
\* Relocation enters the committed rows only in the step that commits its
\* request's transaction.
C13_NoJobBeforeCommit ==
    /\ [](\A r \in Requests :
            /\ pc[r] \in {"check", "create_file", "putfile", "txn"}
                => local[r].relocation = NoRelocation
            /\ pc[r] = "txn_file"
                => /\ local[r].relocation.id \notin RelocationIds
                   /\ \A a \in relocation_files :
                        a.relocation # local[r].relocation.id)
    /\ [][/\ \A r \in Requests :
                (Returns(r) /\ pc[r] \in {"idle", "check", "create_file", "putfile"})
                => /\ response'[r].status \in {400, 409, 500}
                   /\ UNCHANGED <<relocations, relocation_files, relocation_seq>>
          /\ \A j \in relocations' :
                j.id \notin RelocationIds
                => \E r \in Requests :
                    /\ pc[r] = "txn_file"
                    /\ Returns(r)
                    /\ response'[r].status = 201
                    /\ j = local[r].relocation]_vars

\* C13's case: one request failed in putfile while another holds an
\* uncommitted Relocation, and no Relocation is committed.
C13_Witness ==
    /\ \E r \in Requests : response[r].detail = "StorageWriteFailure"
    /\ \E r \in Requests : pc[r] = "txn_file" /\ local[r].relocation.id = 1
    /\ relocations = {} /\ relocation_files = {}

\* The files no RelocationFile references and no running request is writing.
Orphans ==
    {i \in 1..Len(files) :
        /\ \A a \in relocation_files : a.file # i
        /\ \A r \in Requests : local[r].file # i}

\* C14: an orphaned file is a file whose upload completed and whose request's
\* transaction failed: no failed or partial write leaves a File behind.
C14_OrphanOnlyAfterFailedTransaction ==
    \A i \in Orphans :
        /\ files[i].size > 0
        /\ SumSizes(files[i].blobs) = files[i].size
        /\ \E r \in Requests : response[r].detail = "PersistenceFailure"

OwnerInProgress(r) ==
    \E j \in relocations : j.owner = local[r].owner /\ j.status = "IN_PROGRESS"

\* C15: the admission check rejects a request exactly when a Relocation of
\* its owner is IN_PROGRESS, and admits it otherwise; 409 is returned by no
\* other step.
C15_AdmissionRule ==
    [][\A r \in Requests :
        /\ (pc[r] = "check" /\ pc'[r] # "check")
            => /\ OwnerInProgress(r)
                    <=> (pc'[r] = "done" /\ response'[r].status = 409)
               /\ ~OwnerInProgress(r) <=> pc'[r] = "create_file"
        /\ (Returns(r) /\ response'[r].status = 409) => pc[r] = "check"]_vars

\* C15's case: a request is admitted although its owner has a paused
\* relocation with the same org slugs.
C15_Witness ==
    \E r \in Requests :
        /\ pc[r] = "create_file"
        /\ \E j \in relocations :
            /\ j.owner = local[r].owner
            /\ j.status = "PAUSE"
            /\ j.want_org_slugs = local[r].org_slugs

PcOrder ==
    {<<"idle", "check">>, <<"check", "create_file">>, <<"create_file", "putfile">>,
     <<"putfile", "txn">>, <<"txn", "txn_file">>}

\* C16: a request moves through its steps in the order serializer and owner
\* lookup, admission check, file write, transaction, or returns; the File
\* table is written only by a request the admission check has let pass; and
\* 409 is returned only to a request with a valid shape and a known owner.
C16_StepOrder ==
    /\ [](\A r \in Requests : pc[r] \in {"idle", "check"} => local[r].file = 0)
    /\ [][/\ \A r \in Requests :
                /\ pc'[r] # pc[r] => (pc'[r] = "done" \/ <<pc[r], pc'[r]>> \in PcOrder)
                /\ (Returns(r) /\ response'[r].status = 409)
                    => /\ serializer_errors([file |-> local[r].fileobj,
                                             orgs |-> local[r].org_slugs,
                                             owner |-> local[r].owner_username]) = {}
                       /\ get_by_username(local[r].owner_username) # <<>>
          /\ files' # files
                => \E r \in Requests : pc[r] \in {"create_file", "putfile"}
                                       /\ (pc'[r] # pc[r] \/ local'[r] # local[r])]_vars

\* C16's case: one request went through all its steps and returned 201, the
\* other was rejected with 409, and the only File is the one of the first.
C16_Witness ==
    /\ \E r \in Requests : Returned(r, 409)
    /\ \E r \in Requests : Returned(r, 201)
    /\ Len(files) = 1 /\ files[1].size = 65
    /\ \E a \in relocation_files : a.file = 1

C18_ErrorDetails ==
    [][\A r \in Requests :
        Returns(r)
        => /\ response'[r].detail = ERR_DUPLICATE_RELOCATION
                => (pc[r] = "check" /\ OwnerInProgress(r))
           /\ (pc[r] = "idle" /\ ~relocation_enabled)
                => response'[r].detail = ERR_FEATURE_DISABLED]_vars

\* The request r takes this step.
Steps(r) == pc'[r] # pc[r] \/ local'[r] # local[r]

\* C19: a step of a request removes or changes no committed Relocation and no
\* RelocationFile, removes no File, and changes no File but the one that
\* request is writing, to which it only appends blobs and saves the size; a
\* request that returns 400 or 409 leaves the Relocation and RelocationFile
\* tables as they were.
C19_Frame ==
    [][\A r \in Requests :
        Steps(r)
        => /\ relocations \subseteq relocations'
           /\ relocation_files \subseteq relocation_files'
           /\ Len(files') >= Len(files)
           /\ \A i \in 1..Len(files) :
                IF pc[r] = "putfile" /\ local[r].file = i
                THEN /\ files'[i].name = files[i].name
                     /\ files'[i].type = files[i].type
                     /\ SubSeq(files'[i].blobs, 1, Len(files[i].blobs)) = files[i].blobs
                ELSE files'[i] = files[i]
           /\ (Returns(r) /\ response'[r].status \in {400, 409})
                => UNCHANGED <<relocations, relocation_files>>]_vars

\* C19's case: a second relocation of an owner was committed beside the
\* owner's first, finished one, and both rows and both files are there.
C19_Witness ==
    /\ \E j, k \in relocations :
        j.owner = k.owner /\ j.status = "SUCCESS" /\ k.status = "IN_PROGRESS"
    /\ Cardinality(relocation_files) = 2
    /\ Len(files) = 2
    /\ \A i \in 1..Len(files) : files[i].size = 65
====
